---- MODULE Spec2Model ----
(***************************************************************************)
(* nuts-archive: the block-index tree (tree.rs) and the entry writer and   *)
(* reader (entry/mut.rs, entry/immut.rs) over a block container.           *)
(*                                                                         *)
(* Every handler is an operator on a machine record m:                     *)
(*   disk, nextId   the backend: blocks by id, and the next fresh id       *)
(*   tree           the Tree struct, its node cache included               *)
(*   hdr            the in-memory Header (file count)                      *)
(*   ent            the live EntryMut (entry, first, last, cache)          *)
(*   ops, fail      backend operations issued by the current call, and the *)
(*                  operation that fails (0: none)                         *)
(*   err, val       the call's result: "ok" with val, or the error         *)
(*   acc            the bytes accepted by the write calls of the current   *)
(*                  call that returned Ok (kept for the claims)            *)
(*   log            the backend operations of the current call that were   *)
(*                  carried out, in order (kept for the claims)            *)
(* The `?` of the source is the test of m.err after each step.             *)
(***************************************************************************)
EXTENDS Integers, Sequences, FiniteSets, TLC

VARIABLES disk, nextId, tree, hdr, ent, budget, last, nacq, ncalls,
          entries, steps, base, reader, bc

vars == <<disk, nextId, tree, hdr, ent, budget, last, nacq, ncalls,
          entries, steps, base, reader, bc>>

\* ------------------------------------------------------------- parameters

BlockSize == 2
IdSize == 1
NUM_DIRECT == 12
MaxFailures == 1
MaxExtraCalls == 2
MaxSteps == 4
MaxBuf == 3
MaxData == 5

NullId == 0

ids_per_node == BlockSize \div IdSize

Ipn == ids_per_node

Capacity == NUM_DIRECT + Ipn + Ipn * Ipn + Ipn * Ipn * Ipn

Min(a, b) == IF a < b THEN a ELSE b

\* the sequence f as a tuple of its values
Tuple(f) == SubSeq(f, 1, Len(f))

Zeros(n) == Tuple([i \in 1..n |-> 0])

\* ---------------------------------------------------------------- backend

ZeroBlock == [kind |-> "raw", bytes |-> Zeros(BlockSize)]

Ok(m, v) == [m EXCEPT !.val = v]

Fail(m, e) == [m EXCEPT !.err = e, !.val = 0]

\* x is evaluated once and F applied to its value
Let(x, F(_)) == CHOOSE v \in {F(r) : r \in {x}} : TRUE

\* the `?` operator: an error of x is returned, else the call goes on with F
Then(x, F(_)) == Let(x, LAMBDA r : IF r.err # "ok" THEN r ELSE F(r))

\* container.aquire(): a fresh id; its block reads as zeros
ContainerAquire(m) ==
    LET n == m.ops + 1 IN
    IF n = m.fail
    THEN Fail([m EXCEPT !.ops = n], "backend")
    ELSE [m EXCEPT !.ops = n,
                   !.nextId = @ + 1,
                   !.disk = @ @@ (m.nextId :> ZeroBlock),
                   !.val = m.nextId,
                   !.log = Append(@, [op |-> "aquire", id |-> m.nextId])]

\* container.write(id, block)
ContainerWrite(m, id, blk) ==
    LET n == m.ops + 1 IN
    IF n = m.fail
    THEN Fail([m EXCEPT !.ops = n], "backend")
    ELSE [m EXCEPT !.ops = n, !.disk[id] = blk, !.val = BlockSize,
                   !.log = Append(@, [op |-> "write", id |-> id])]

\* container.read(id): val is the block
ContainerRead(m, id) ==
    LET n == m.ops + 1 IN
    IF n = m.fail
    THEN Fail([m EXCEPT !.ops = n], "backend")
    ELSE [m EXCEPT !.ops = n, !.val = m.disk[id],
                   !.log = Append(@, [op |-> "read", id |-> id])]

\* ------------------------------------------------------------- index node

RECURSIVE Pow(_, _)
Pow(b, e) == IF e = 0 THEN 1 ELSE b * Pow(b, e - 1)

IdBytes(id) == Tuple([k \in 1..IdSize |-> (id \div Pow(256, IdSize - k)) % 256])

RECURSIVE IdFromBytes(_)
IdFromBytes(b) ==
    IF b = <<>> THEN 0
    ELSE 256 * IdFromBytes(SubSeq(b, 1, Len(b) - 1)) + b[Len(b)]

\* a node block: ipn ids packed contiguously, the remainder zero
NodePack(ids) ==
    [kind |-> "raw",
     bytes |-> Tuple([p \in 1..BlockSize |->
                   IF p <= Ipn * IdSize
                   THEN IdBytes(ids[((p - 1) \div IdSize) + 1])[((p - 1) % IdSize) + 1]
                   ELSE 0])]

NodeUnpack(blk) ==
    Tuple([i \in 1..Ipn |->
        IF blk.kind = "raw"
        THEN IdFromBytes(SubSeq(blk.bytes, (i - 1) * IdSize + 1, i * IdSize))
        ELSE NullId])

\* Node::aquire(container): a block for a new, empty index node
NodeAquire(m) == ContainerAquire(m)

\* ------------------------------------------------------------- node cache

NewCache == [id |-> NullId, ids |-> Zeros(Ipn), dirty |-> FALSE]

\* Vec::resize_with(n, || Cache::new(container)): truncates or grows
Resize(cache, n) ==
    Tuple([k \in 1..n |-> IF k <= Len(cache) THEN cache[k] ELSE NewCache])

\* cache[k].refresh(container, id)
CacheRefresh(m, k, id) ==
    IF m.tree.cache[k].id = id THEN m
    ELSE Then(IF m.tree.cache[k].dirty
              THEN ContainerWrite(m, m.tree.cache[k].id, NodePack(m.tree.cache[k].ids))
              ELSE m,
         LAMBDA m1 : Then(ContainerRead(m1, id),
         LAMBDA m2 : [m2 EXCEPT !.tree.cache[k] =
                         [id |-> id, ids |-> NodeUnpack(m2.val), dirty |-> FALSE]]))

\* cache[k].aquire(container, idx, leaf): val is 1 when a new id was stored
CacheAquire(m, k, idx, leaf) ==
    IF m.tree.cache[k].ids[idx + 1] # NullId THEN Ok(m, 0)
    ELSE Then(IF leaf THEN ContainerAquire(m) ELSE NodeAquire(m),
         LAMBDA r : Then(ContainerWrite([r EXCEPT !.tree.cache[k].ids[idx + 1] = r.val,
                                                  !.tree.cache[k].dirty = TRUE],
                                        r.tree.cache[k].id,
                                        NodePack([r.tree.cache[k].ids EXCEPT ![idx + 1] = r.val])),
         LAMBDA w : Ok([w EXCEPT !.tree.cache[k].dirty = FALSE], 1)))

\* ------------------------------------------------------------------- tree

TreeNew ==
    [direct |-> Zeros(NUM_DIRECT),
     indirect |-> NullId,
     d_indirect |-> NullId,
     t_indirect |-> NullId,
     nblocks |-> 0,
     cache |-> <<>>]

BumpNblocks(m) == [m EXCEPT !.tree.nblocks = @ + 1]

\* `if self.cache[k].aquire(container, idx, true)? { self.nblocks += 1 }`
AquireLeaf(m, k, idx) ==
    Then(CacheAquire(m, k, idx, TRUE),
         LAMBDA r : IF r.val = 1 THEN BumpNblocks(r) ELSE r)

lookup_direct(m, idx, aquire) ==
    IF aquire /\ m.tree.direct[idx + 1] = NullId
    THEN Then(ContainerAquire(m),
              LAMBDA r : Ok(BumpNblocks([r EXCEPT !.tree.direct[idx + 1] = r.val]), r.val))
    ELSE Ok(m, m.tree.direct[idx + 1])

lookup_indirect(m, idx, aquire) ==
    Then(IF m.tree.indirect = NullId
         THEN Then(NodeAquire(m), LAMBDA r : [r EXCEPT !.tree.indirect = r.val])
         ELSE m,
    LAMBDA m1 : Then(CacheRefresh([m1 EXCEPT !.tree.cache = Resize(@, 1)], 1,
                                  m1.tree.indirect),
    LAMBDA m2 : Then(IF aquire THEN AquireLeaf(m2, 1, idx) ELSE m2,
    LAMBDA m3 : Ok(m3, m3.tree.cache[1].ids[idx + 1]))))

lookup_d_indirect(m, idx, aquire) ==
    Then(IF m.tree.d_indirect = NullId
         THEN Then(NodeAquire(m), LAMBDA r : [r EXCEPT !.tree.d_indirect = r.val])
         ELSE m,
    \* level 0
    LAMBDA m1 : Then(CacheRefresh([m1 EXCEPT !.tree.cache = Resize(@, 2)], 1,
                                  m1.tree.d_indirect),
    LAMBDA m2 : Then(IF aquire THEN CacheAquire(m2, 1, (idx \div Ipn) % Ipn, FALSE) ELSE m2,
    LAMBDA m3 :
        IF ~aquire /\ m3.tree.cache[1].ids[((idx \div Ipn) % Ipn) + 1] = NullId
        THEN Ok(m3, NullId)
        ELSE \* level 1
             Then(CacheRefresh(m3, 2, m3.tree.cache[1].ids[((idx \div Ipn) % Ipn) + 1]),
             LAMBDA m4 : Then(IF aquire THEN AquireLeaf(m4, 2, idx % Ipn) ELSE m4,
             LAMBDA m5 : Ok(m5, m5.tree.cache[2].ids[(idx % Ipn) + 1]))))))

lookup_t_indirect(m, idx, aquire) ==
    Then(IF m.tree.t_indirect = NullId
         THEN Then(NodeAquire(m), LAMBDA r : [r EXCEPT !.tree.t_indirect = r.val])
         ELSE m,
    \* level 0
    LAMBDA m1 : Then(CacheRefresh([m1 EXCEPT !.tree.cache = Resize(@, 3)], 1,
                                  m1.tree.t_indirect),
    LAMBDA m2 : Then(IF aquire
                     THEN CacheAquire(m2, 1, (idx \div (Ipn * Ipn)) % Ipn, FALSE)
                     ELSE m2,
    LAMBDA m3 :
        IF ~aquire /\ m3.tree.cache[1].ids[((idx \div (Ipn * Ipn)) % Ipn) + 1] = NullId
        THEN Ok(m3, NullId)
        ELSE \* level 1
             Then(CacheRefresh(m3, 2,
                               m3.tree.cache[1].ids[((idx \div (Ipn * Ipn)) % Ipn) + 1]),
             LAMBDA m4 : Then(IF aquire
                              THEN CacheAquire(m4, 2, (idx \div Ipn) % Ipn, FALSE)
                              ELSE m4,
             LAMBDA m5 :
                 IF ~aquire /\ m5.tree.cache[2].ids[((idx \div Ipn) % Ipn) + 1] = NullId
                 THEN Ok(m5, NullId)
                 ELSE \* level 2
                      Then(CacheRefresh(m5, 3,
                                        m5.tree.cache[2].ids[((idx \div Ipn) % Ipn) + 1]),
                      LAMBDA m6 : Then(IF aquire THEN AquireLeaf(m6, 3, idx % Ipn) ELSE m6,
                      LAMBDA m7 : Ok(m7, m7.tree.cache[3].ids[(idx % Ipn) + 1]))))))))

lookup_cache(m, idx, aquire) ==
    IF idx < NUM_DIRECT THEN lookup_direct(m, idx, aquire)
    ELSE IF idx < NUM_DIRECT + Ipn
    THEN lookup_indirect(m, idx - NUM_DIRECT, aquire)
    ELSE IF idx < NUM_DIRECT + Ipn + Ipn * Ipn
    THEN lookup_d_indirect(m, idx - NUM_DIRECT - Ipn, aquire)
    ELSE lookup_t_indirect(m, idx - NUM_DIRECT - Ipn - Ipn * Ipn, aquire)

\* aquire with the capacity test off by one (<= for <)
aquire_le(m) ==
    IF m.tree.nblocks <= Capacity
    THEN lookup_cache(m, m.tree.nblocks, TRUE)
    ELSE Fail(m, "full")

\* Tree::aquire: val is the id of the block at index nblocks
aquire(m) ==
    IF m.tree.nblocks < Capacity
    THEN lookup_cache(m, m.tree.nblocks, TRUE)
    ELSE Fail(m, "full")

\* Tree::lookup: val is the id, or NullId for None; err for Some(Err)
lookup(m, idx) ==
    IF idx < m.tree.nblocks
    THEN lookup_cache(m, idx, FALSE)
    ELSE Ok(m, NullId)

\* ------------------------------------------------- header and entry data

\* the persisted form of the tree: the node cache is skipped
TreeSer(t) ==
    [direct |-> t.direct, indirect |-> t.indirect, d_indirect |-> t.d_indirect,
     t_indirect |-> t.t_indirect, nblocks |-> t.nblocks]

\* flush_header(container, header_id, header, tree)
flush_header(m) ==
    ContainerWrite(m, m.hdr.id,
                   [kind |-> "header", files |-> m.hdr.files, tree |-> TreeSer(m.tree)])

\* Inner::flush(container, id): the entry's name and size into block id
InnerFlush(m, name, size, id) ==
    ContainerWrite(m, id, [kind |-> "meta", name |-> name, size |-> size])

\* Inner::load(pager, id): val is the entry record of block id
InnerLoad(m, id) ==
    Then(ContainerRead(m, id),
         LAMBDA r : IF r.val.kind = "meta"
                    THEN Ok(r, [name |-> r.val.name, size |-> r.val.size])
                    ELSE Fail(r, "codec"))

\* Archive::create: the header block is acquired, tree and header flushed
Created ==
    Then(ContainerAquire([disk |-> <<>>, nextId |-> 1, tree |-> TreeNew,
                          hdr |-> [id |-> NullId, files |-> 0],
                          ent |-> [live |-> FALSE],
                          ops |-> 0, fail |-> 0, err |-> "ok", val |-> 0, acc |-> 0,
                          log |-> <<>>]),
         LAMBDA r : flush_header([r EXCEPT !.hdr.id = r.val]))

\* ----------------------------------------------------------- entry writer

\* EntryBuilder::build: val is the id of the metadata block
build(m, name) ==
    Then(aquire(m),
    LAMBDA a : Then(InnerFlush(a, name, 0, a.val),
    LAMBDA b : Then(flush_header([b EXCEPT !.hdr.files = @ + 1]),
    LAMBDA c : Ok([c EXCEPT !.ent = [live |-> TRUE, name |-> name, size |-> 0,
                                     first |-> a.val, last |-> a.val,
                                     cache |-> <<>>]],
                  a.val))))

\* self.cache[pos..pos + nbytes].copy_from_slice(&buf[..nbytes])
CopyFromSlice(cache, pos, nbytes, buf) ==
    Tuple([p \in 1..Len(cache) |->
              IF p > pos /\ p <= pos + nbytes THEN buf[p - pos] ELSE cache[p]])

\* the tail of write with the tail cache not kept: the block is written from
\* a copy and the cache is left as it was
WriteTail_stale(m, buf, pos, available) ==
    Let(Min(Len(buf), available),
    LAMBDA nbytes :
        Then(ContainerWrite(m, m.ent.last,
                            [kind |-> "raw",
                             bytes |-> CopyFromSlice(m.ent.cache, pos, nbytes, buf)]),
        LAMBDA m2 : Then(InnerFlush([m2 EXCEPT !.ent.size = @ + nbytes],
                                    m2.ent.name, m2.ent.size + nbytes, m2.ent.first),
        LAMBDA m3 : Then(flush_header(m3),
        LAMBDA m4 : Ok([m4 EXCEPT !.acc = @ + nbytes], nbytes)))))

\* the tail of write with the metadata flushed before the content block
WriteTail_meta_first(m, buf, pos, available) ==
    Let(Min(Len(buf), available),
    LAMBDA nbytes :
        Let([m EXCEPT !.ent.cache = CopyFromSlice(@, pos, nbytes, buf),
                      !.ent.size = @ + nbytes],
        LAMBDA m1 : Then(InnerFlush(m1, m1.ent.name, m1.ent.size, m1.ent.first),
        LAMBDA m2 : Then(ContainerWrite(m2, m2.ent.last,
                                        [kind |-> "raw", bytes |-> m2.ent.cache]),
        LAMBDA m3 : Then(flush_header(m3),
        LAMBDA m4 : Ok([m4 EXCEPT !.acc = @ + nbytes], nbytes))))))

\* the tail of write with the header flushed only when a block was acquired
WriteTail_lazy_header(m, buf, pos, available) ==
    Let(Min(Len(buf), available),
    LAMBDA nbytes :
        Let([m EXCEPT !.ent.cache = CopyFromSlice(@, pos, nbytes, buf)],
        LAMBDA m1 : Then(ContainerWrite(m1, m1.ent.last,
                                        [kind |-> "raw", bytes |-> m1.ent.cache]),
        LAMBDA m2 : Then(InnerFlush([m2 EXCEPT !.ent.size = @ + nbytes],
                                    m2.ent.name, m2.ent.size + nbytes, m2.ent.first),
        LAMBDA m3 : Then(IF pos = 0 THEN flush_header(m3) ELSE m3,
        LAMBDA m4 : Ok([m4 EXCEPT !.acc = @ + nbytes], nbytes))))))

\* the tail of EntryMut::write, once the tail block and `available` are known
WriteTail(m, buf, pos, available) ==
    Let(Min(Len(buf), available),
    LAMBDA nbytes :
        Let([m EXCEPT !.ent.cache = CopyFromSlice(@, pos, nbytes, buf)],
        LAMBDA m1 : Then(ContainerWrite(m1, m1.ent.last,
                                        [kind |-> "raw", bytes |-> m1.ent.cache]),
        LAMBDA m2 : Then(InnerFlush([m2 EXCEPT !.ent.size = @ + nbytes],
                                    m2.ent.name, m2.ent.size + nbytes, m2.ent.first),
        LAMBDA m3 : Then(flush_header(m3),
        LAMBDA m4 : Ok([m4 EXCEPT !.acc = @ + nbytes], nbytes))))))

\* write with available = block_size also when pos # 0
write_no_pos(m, buf) ==
    IF m.ent.size % BlockSize = 0
    THEN Then(aquire(m),
         LAMBDA a : WriteTail([a EXCEPT !.ent.last = a.val,
                                        !.ent.cache = Zeros(BlockSize)],
                              buf, 0, BlockSize))
    ELSE IF Len(m.ent.cache) # BlockSize
    THEN Fail(m, "panic")
    ELSE WriteTail(m, buf, m.ent.size % BlockSize, BlockSize)

\* EntryMut::write: val is the number of bytes written
write(m, buf) ==
    IF m.ent.size % BlockSize = 0
    THEN Then(aquire(m),
         LAMBDA a : WriteTail([a EXCEPT !.ent.last = a.val,
                                        !.ent.cache = Zeros(BlockSize)],
                              buf, 0, BlockSize))
    ELSE IF Len(m.ent.cache) # BlockSize
    THEN Fail(m, "panic")
    ELSE WriteTail(m, buf, m.ent.size % BlockSize,
                   BlockSize - (m.ent.size % BlockSize))

\* write_all that ends with one more write call, on the empty rest
RECURSIVE write_all_flush(_, _)
write_all_flush(m, buf) ==
    Then(write(m, buf),
         LAMBDA r : IF r.val >= Len(buf) THEN Then(write(r, <<>>), LAMBDA e : Ok(e, 0))
                    ELSE write_all_flush(r, SubSeq(buf, r.val + 1, Len(buf))))

\* write_all with the test of the buffer after the first write
RECURSIVE write_all_after(_, _)
write_all_after(m, buf) ==
    Then(write(m, buf),
         LAMBDA r : IF r.val >= Len(buf) THEN Ok(r, 0)
                    ELSE write_all_after(r, SubSeq(buf, r.val + 1, Len(buf))))

\* EntryMut::write_all
RECURSIVE write_all(_, _)
write_all(m, buf) ==
    IF buf = <<>> THEN Ok(m, 0)
    ELSE Then(write(m, buf),
              LAMBDA r : write_all(r, SubSeq(buf, r.val + 1, Len(buf))))

\* ----------------------------------------------------------- entry reader

\* content_blocks without the block of the remainder
content_blocks_floor(size) == size \div BlockSize

\* InnerEntry::content_blocks
content_blocks(size) ==
    IF size % BlockSize = 0 THEN size \div BlockSize ELSE size \div BlockSize + 1

\* the bytes container.read delivers for a block: those of a content or node
\* block, and the encoded form (not modelled byte by byte) of any other
Opaque == 255

BlockBytes(blk) ==
    IF blk.kind = "raw" THEN blk.bytes ELSE Tuple([i \in 1..BlockSize |-> Opaque])

\* InnerEntry::load: val is the entry at tree index idx, metadata block id;
\* its field out stands for the caller's buffer of the last read
EntryLoad(m, idx, id) ==
    Then(InnerLoad(m, id),
         LAMBDA r : Ok(r, [idx |-> idx, name |-> r.val.name, size |-> r.val.size,
                           rcache |-> <<>>, ridx |-> 0, out |-> <<>>]))

\* the match of first() and next(): val is the entry at index idx, or the
\* record [idx |-> -1] for None
EntryAt(m, idx) ==
    Then(lookup(m, idx),
         LAMBDA r : IF r.val = NullId THEN Ok(r, [idx |-> -1])
                    ELSE EntryLoad(r, idx, r.val))

\* InnerEntry::first
first(m) == EntryAt(m, 0)

\* InnerEntry::next
next(m, e) == EntryAt(m, e.idx + content_blocks(e.size) + 1)

\* the tail of InnerEntry::read: min(rcache.len(), buf.len()) bytes are drained
Drain(m, e, n) ==
    Ok(m, [e EXCEPT !.rcache = SubSeq(@, Min(Len(@), n) + 1, Len(@)),
                    !.out = SubSeq(e.rcache, 1, Min(Len(e.rcache), n))])

\* read with the read cache always a whole block (cache_size = block_size)
read_padded(m, e, n) ==
    IF e.rcache = <<>>
    THEN IF e.ridx >= content_blocks(e.size) THEN Ok(m, [e EXCEPT !.out = <<>>])
         ELSE Let([e EXCEPT !.rcache = Zeros(BlockSize), !.out = <<>>],
              LAMBDA e1 : Let(lookup(m, e.idx + e.ridx + 1),
              LAMBDA l :
                  IF l.err # "ok" THEN [l EXCEPT !.val = e1]
                  ELSE IF l.val = NullId THEN Ok(l, e1)
                  ELSE Let(ContainerRead(l, l.val),
                       LAMBDA b :
                           IF b.err # "ok" THEN [b EXCEPT !.val = e1]
                           ELSE Drain(b, [e1 EXCEPT
                                    !.rcache = SubSeq(BlockBytes(b.val), 1,
                                                      Len(e1.rcache)),
                                    !.ridx = @ + 1], n))))
    ELSE Drain(m, e, n)

\* InnerEntry::read on entry e with a buffer of n bytes: val is the entry
\* after the call, the bytes put into the buffer in its field out. The read
\* cache is resized (zero filled) before the block is looked up and read, and
\* stays so when the lookup finds nothing or a backend operation fails; val
\* is the entry also when err is an error
read(m, e, n) ==
    IF e.rcache = <<>>
    THEN IF e.ridx >= content_blocks(e.size) THEN Ok(m, [e EXCEPT !.out = <<>>])
         ELSE Let([e EXCEPT !.rcache = Zeros(Min(e.size - e.ridx * BlockSize,
                                                 BlockSize)),
                            !.out = <<>>],
              LAMBDA e1 : Let(lookup(m, e.idx + e.ridx + 1),
              LAMBDA l :
                  IF l.err # "ok" THEN [l EXCEPT !.val = e1]
                  ELSE IF l.val = NullId THEN Ok(l, e1)
                  ELSE Let(ContainerRead(l, l.val),
                       LAMBDA b :
                           IF b.err # "ok" THEN [b EXCEPT !.val = e1]
                           ELSE Drain(b, [e1 EXCEPT
                                    !.rcache = SubSeq(BlockBytes(b.val), 1,
                                                      Len(e1.rcache)),
                                    !.ridx = @ + 1], n))))
    ELSE Drain(m, e, n)

\* read_all without the test of the buffer after the loop
RECURSIVE read_all_noeof(_, _, _, _)
read_all_noeof(m, e, n, got) ==
    IF n = 0 THEN Ok(m, [e EXCEPT !.out = got])
    ELSE Let(read(m, e, n),
         LAMBDA r :
             IF r.err # "ok" THEN [r EXCEPT !.val.out = got]
             ELSE IF r.val.out = <<>> THEN [r EXCEPT !.val.out = got]
             ELSE read_all_noeof(r, r.val, n - Len(r.val.out), got \o r.val.out))

\* FileEntry::read_all with a buffer of n bytes left to fill, got the part
\* filled so far: val.out is the filled part of the buffer; err is "eof" for
\* UnexpectedEof; val is the entry as the reads left it, also on an error
RECURSIVE read_all(_, _, _, _)
read_all(m, e, n, got) ==
    IF n = 0 THEN Ok(m, [e EXCEPT !.out = got])
    ELSE Let(read(m, e, n),
         LAMBDA r :
             IF r.err # "ok" THEN [r EXCEPT !.val.out = got]
             ELSE IF r.val.out = <<>> THEN [r EXCEPT !.err = "eof", !.val.out = got]
             ELSE read_all(r, r.val, n - Len(r.val.out), got \o r.val.out))

\* FileEntry::read_vec: val.out is the vector
read_vec(m, e) == read_all(m, e, e.size, <<>>)

\* ------------------------------------------------------ the machine record

Machine(f) ==
    [disk |-> disk, nextId |-> nextId, tree |-> tree, hdr |-> hdr, ent |-> ent,
     ops |-> 0, fail |-> f, err |-> "ok", val |-> 0, acc |-> 0, log |-> <<>>]

\* the backend operation of a call that fails: any of those the call issues
\* (n of them when none fails), while the budget of backend failures lasts
FailAt(n) == IF budget > 0 THEN 0..n ELSE {0}

Failed(m) == IF m.err = "backend" THEN 1 ELSE 0

\* what a call without backend failure returns for lookup(idx) in this state
LookupVal(idx) == lookup(Machine(0), idx).val

NoEntry == [live |-> FALSE]

\* ------------------------------------------------ the tree on its own

InitTreeWith(b) ==
    /\ disk = <<>>
    /\ nextId = 1
    /\ tree = TreeNew
    /\ hdr = [id |-> NullId, files |-> 0]
    /\ ent = NoEntry
    /\ budget = b
    /\ last = [op |-> "new", err |-> "ok", val |-> 0]
    /\ nacq = 0
    /\ ncalls = 0
    /\ entries = <<>>
    /\ steps = 0
    /\ base = NoEntry
    /\ reader = NoEntry
    /\ bc = NoEntry

TreeAquire ==
    \E f \in FailAt(aquire(Machine(0)).ops) :
        LET r == aquire(Machine(f)) IN
        /\ ncalls < Capacity + MaxExtraCalls
        /\ disk' = r.disk
        /\ nextId' = r.nextId
        /\ tree' = r.tree
        /\ budget' = budget - Failed(r)
        /\ last' = [op |-> "aquire", err |-> r.err, val |-> r.val]
        /\ nacq' = IF r.err = "ok" THEN nacq + 1 ELSE nacq
        /\ ncalls' = ncalls + 1
        /\ UNCHANGED <<hdr, ent, entries, steps, base, reader, bc>>

TreeLookup ==
    \E idx \in 0..(Capacity + 1) :
      \E f \in FailAt(lookup(Machine(0), idx).ops) :
        LET r == lookup(Machine(f), idx) IN
        /\ disk' = r.disk
        /\ nextId' = r.nextId
        /\ tree' = r.tree
        /\ budget' = budget - Failed(r)
        /\ last' = [op |-> "lookup", err |-> r.err, val |-> 0]
        /\ UNCHANGED <<hdr, ent, nacq, ncalls, entries, steps, base, reader, bc>>

NextTree == TreeAquire \/ TreeLookup

\* the tree with backend failures
InitTree == InitTreeWith(MaxFailures)

SpecTree == InitTree /\ [][NextTree]_vars

\* the tree on a backend that never fails
InitTreeOk == InitTreeWith(0)

SpecTreeOk == InitTreeOk /\ [][NextTree]_vars

\* ------------------------------------------------------------ the archive

Names == {"foo", "bar"}

\* the byte a caller writes at position p (from 1) of the e-th entry: as in
\* the tests, which write 0, 1, 2, ..., the value tells the position; it is
\* never 0, the value of the padding
ByteAt(e, p) == 1 + ((16 * e + p) % 251)

\* the buffers handed to write and write_all on the live entry: the next n
\* bytes of its content, for every n up to MaxBuf
Bufs ==
    {Tuple([i \in 1..n |-> ByteAt(Len(entries), Len(entries[Len(entries)].data) + i)]) :
        n \in 0..MaxBuf}

\* an archive of k empty entries, each built and dropped
RECURSIVE Appended(_)
Appended(k) ==
    IF k = 0 THEN Created
    ELSE Let(Appended(k - 1), LAMBDA r : build(r, "pre"))

\* the archives a run starts from: a new one, and those whose next block is
\* the last of an index class or the last but one of the tree
Preset ==
    {0, NUM_DIRECT - 1, NUM_DIRECT + Ipn - 1, Capacity - 2}

\* base: the archive as the build of the live entry left it.
\* entries: for each entry built, its name, the tree index of its metadata
\* block, the bytes its successful writes accepted, whether a write on it
\* failed, and whether a write on it was given an empty buffer
InitArchive(b) ==
    \E k \in Preset :
        LET m == Appended(k) IN
        /\ disk = m.disk
        /\ nextId = m.nextId
        /\ tree = m.tree
        /\ hdr = m.hdr
        /\ ent = NoEntry
        /\ budget = b
        /\ last = [op |-> "create", err |-> "ok", val |-> 0]
        /\ nacq = 0
        /\ ncalls = 0
        /\ entries = Tuple([i \in 1..k |->
                              [name |-> "pre", idx |-> i - 1, data |-> <<>>,
                               failed |-> FALSE, empty |-> FALSE]])
        /\ steps = 0
        /\ base = NoEntry
        /\ reader = NoEntry
        /\ bc = NoEntry

Commit(r, op) ==
    /\ disk' = r.disk
    /\ nextId' = r.nextId
    /\ tree' = r.tree
    /\ hdr' = r.hdr
    /\ budget' = budget - Failed(r)
    /\ last' = [op |-> op, err |-> r.err, val |-> r.val]
    /\ steps' = steps + 1
    /\ UNCHANGED <<nacq, ncalls, reader, bc>>

\* archive.append(name).build(); an EntryMut still alive is dropped first,
\* as the borrow of the archive requires
Build ==
    /\ steps < MaxSteps
    /\ \E name \in Names :
         \E f \in FailAt(build(Machine(0), name).ops) :
           LET r == build([Machine(f) EXCEPT !.ent = NoEntry], name) IN
           /\ Commit(r, "build")
           /\ ent' = IF r.err = "ok" THEN r.ent ELSE NoEntry
           /\ entries' = IF r.err = "ok"
                         THEN Append(entries,
                                     [name |-> name, idx |-> tree.nblocks,
                                      data |-> <<>>, failed |-> FALSE,
                                      empty |-> FALSE])
                         ELSE entries
           /\ base' = IF r.err = "ok"
                      THEN [disk |-> r.disk, nextId |-> r.nextId, tree |-> r.tree,
                            hdr |-> r.hdr, ent |-> r.ent, live |-> TRUE]
                      ELSE NoEntry

\* the record of the live entry after a write or write_all call on it: the
\* bytes that the write calls which returned Ok accepted are added
Written(r, buf, isWrite) ==
    [entries EXCEPT ![Len(entries)] =
        [@ EXCEPT !.data = @ \o SubSeq(buf, 1, r.acc),
                  !.failed = @ \/ r.err # "ok",
                  !.empty = @ \/ (isWrite /\ buf = <<>>)]]

\* entry.write(buf)
Write ==
    /\ steps < MaxSteps
    /\ ent.live
    /\ \E buf \in Bufs :
         \E f \in FailAt(write(Machine(0), buf).ops) :
           LET r == write(Machine(f), buf) IN
           /\ Commit(r, "write")
           /\ ent' = r.ent
           /\ entries' = Written(r, buf, TRUE)
           /\ UNCHANGED base

\* entry.write_all(buf); last.val is the number of bytes the call consumed
WriteAll ==
    /\ steps < MaxSteps
    /\ ent.live
    /\ \E buf \in Bufs :
         \E f \in FailAt(write_all(Machine(0), buf).ops) :
           LET r == write_all(Machine(f), buf) IN
           /\ Commit([r EXCEPT !.val = r.acc], "write_all")
           /\ ent' = r.ent
           /\ entries' = Written(r, buf, FALSE)
           /\ UNCHANGED base

Next == Build \/ Write \/ WriteAll

\* the archive on a backend that does not fail
Init == InitArchive(0)

Spec == Init /\ [][Next]_vars

\* the archive on a backend of which up to MaxFailures operations fail
InitFail == InitArchive(MaxFailures)

SpecFail == InitFail /\ [][Next]_vars

\* ----------------------------------------------------- claims on the tree

Indices == 0..(Capacity + 1)

\* C3 (as claimed): in every reachable state of a tree, calls that failed with
\* a backend error included, lookup(i) returns a non-NULL id for every
\* i < nblocks and absent for every i >= nblocks.
DenseAllocation ==
    \A i \in Indices :
        /\ lookup(Machine(0), i).err = "ok"
        /\ i < tree.nblocks => LookupVal(i) # NullId
        /\ i >= tree.nblocks => LookupVal(i) = NullId

\* C4 (as claimed): once lookup(i) returns a non-NULL id X, every later
\* lookup(i) returns X, whatever operations come between.
StableIds ==
    [][\A i \in Indices : LookupVal(i) # NullId => LookupVal(i)' = LookupVal(i)]_vars

\* C5 (as claimed): the k-th acquire that returns Ok, earlier failed calls not
\* counted, leaves nblocks = k and lookup(k-1) = the id it returned.
SequentialAcquire ==
    (last.op = "aquire" /\ last.err = "ok") =>
        /\ tree.nblocks = nacq
        /\ LookupVal(nacq - 1) = last.val

\* C6: with no backend failure the first Capacity acquire calls succeed, each
\* adding one block, and every later one fails with Full and changes neither
\* the tree nor the backend.
CapacityFull ==
    /\ [](tree.nblocks = Min(ncalls, Capacity) /\ nacq = tree.nblocks)
    /\ [][ncalls' = ncalls + 1 =>
            IF tree.nblocks < Capacity
            THEN last'.err = "ok" /\ tree'.nblocks = tree.nblocks + 1
            ELSE /\ last'.err = "full"
                 /\ tree' = tree
                 /\ disk' = disk
                 /\ nextId' = nextId]_vars

CapacityFullWitness ==
    /\ ncalls = Capacity + 1
    /\ last.op = "aquire"
    /\ last.err = "full"
    /\ tree.nblocks = Capacity
    /\ tree.t_indirect # NullId

\* -------------------------------------------------- claims on the archive

Ceil(size) == (size + BlockSize - 1) \div BlockSize

\* the live entry's record
Cur == entries[Len(entries)]

\* no write call was given an empty buffer
NoEmptyWrite == \A i \in 1..Len(entries) : ~entries[i].empty

\* block k (from 0) of the content data, zero padded
Layout(data, k) ==
    Tuple([p \in 1..BlockSize |->
              IF k * BlockSize + p <= Len(data) THEN data[k * BlockSize + p] ELSE 0])

\* what first() and the next() calls after it visit: index, name and size of
\* each entry, and the error if a call fails
RECURSIVE WalkFrom(_, _)
WalkFrom(r, seen) ==
    IF r.err # "ok" THEN Append(seen, [idx |-> -2, name |-> r.err, size |-> 0])
    ELSE IF r.val.idx = -1 THEN seen
    ELSE Let(next(r, r.val),
             LAMBDA n : WalkFrom(n, Append(seen, [idx |-> r.val.idx,
                                                  name |-> r.val.name,
                                                  size |-> r.val.size])))

Visited == WalkFrom(first(Machine(0)), <<>>)

Expected ==
    Tuple([i \in 1..Len(entries) |->
              [idx |-> entries[i].idx, name |-> entries[i].name,
               size |-> Len(entries[i].data)]])

\* C1: when no backend operation fails, an entry built and written with
\* write_all (or with write calls on non-empty buffers) is found by the
\* enumeration (the first one by first()) with the name it was built with and
\* size = len(data), and read_vec on it returns exactly data.
RoundTrip ==
    NoEmptyWrite =>
        /\ Len(entries) > 0 => first(Machine(0)).val.idx = entries[1].idx
        /\ \A i \in 1..Len(entries) :
             LET e == EntryAt(Machine(0), entries[i].idx)
                 v == read_vec(e, e.val)
             IN /\ e.err = "ok"
                /\ e.val.idx = entries[i].idx
                /\ e.val.name = entries[i].name
                /\ e.val.size = Len(entries[i].data)
                /\ v.err = "ok"
                /\ v.val.out = entries[i].data

RoundTripWitness ==
    /\ Len(entries) = 1
    /\ entries[1].name = "foo"
    /\ Len(entries[1].data) = BlockSize + 1
    /\ last.op = "write_all"
    /\ last.err = "ok"
    /\ steps = 2
    /\ read_vec(first(Machine(0)), first(Machine(0)).val).val.out = entries[1].data

\* C2 (as claimed): after write calls on an entry that all returned Ok, with
\* buffers of any length, S bytes in total, the metadata block holds size = S
\* and exactly ceil(S/block_size) blocks follow it in the tree.
EntrySizeAgreement ==
    (ent.live /\ ~Cur.failed) =>
        LET S == Len(Cur.data) IN
        /\ LookupVal(Cur.idx) = ent.first
        /\ disk[ent.first].kind = "meta"
        /\ disk[ent.first].size = S
        /\ tree.nblocks = Cur.idx + 1 + Ceil(S)
        /\ LookupVal(Cur.idx + 1 + Ceil(S)) = NullId

\* C7: a successful write(buf) on an entry of size s returns
\* n = min(len(buf), block_size - s mod block_size) and adds n to the size;
\* the tail block gets buf[..n] at offset s mod block_size and nothing else
\* of it changes; no byte of buf beyond n reaches a block of the tree.
WriteResult ==
    ent.live =>
        \A buf \in Bufs :
            LET r == write(Machine(0), buf)
                pos == ent.size % BlockSize
                n == Min(Len(buf), BlockSize - pos)
                old == IF pos = 0 THEN Zeros(BlockSize) ELSE disk[ent.last].bytes
            IN r.err = "ok" =>
                 /\ r.val = n
                 /\ r.ent.size = ent.size + n
                 /\ r.disk[r.ent.first].size = ent.size + n
                 /\ r.disk[r.ent.last].bytes = CopyFromSlice(old, pos, n, buf)
                 /\ \A j \in (n + 1)..Len(buf) :
                      \A t \in 0..(r.tree.nblocks - 1) :
                        LET b == r.disk[lookup(r, t).val] IN
                        b.kind = "raw" => \A q \in 1..BlockSize : b.bytes[q] # buf[j]

WriteResultWitness ==
    /\ ent.live
    /\ ent.size = BlockSize + 1
    /\ last.op = "write"
    /\ last.err = "ok"
    /\ last.val = 1
    /\ write(Machine(0), <<7, 8, 9>>).val = BlockSize - 1

\* C8: for non-empty chunks, the archive after the chunks of data were passed
\* to write and write_all is the one a single write_all(data) on the new entry
\* gives: the same tree, ids, header, metadata and blocks.
ChunkingIndependence ==
    (ent.live /\ ~Cur.empty) =>
        LET r == write_all([Machine(0) EXCEPT !.disk = base.disk,
                                              !.nextId = base.nextId,
                                              !.tree = base.tree,
                                              !.hdr = base.hdr,
                                              !.ent = base.ent], Cur.data)
        IN /\ r.err = "ok"
           /\ r.tree = tree
           /\ r.disk = disk
           /\ r.nextId = nextId
           /\ r.hdr = hdr
           /\ r.ent = ent

ChunkingIndependenceWitness ==
    /\ ent.live
    /\ ~Cur.empty
    /\ Len(Cur.data) = 2 * BlockSize + 1
    /\ steps = 4
    /\ last.op = "write"
    /\ last.val = 1

\* C9 (as claimed): after every successful write on an entry of size S, the
\* k-th content block of the entry holds the min(block_size, S - k*block_size)
\* bytes of that range at its head and zeros beyond them.
ContentBlockLayout ==
    (ent.live /\ last.op \in {"write", "write_all"} /\ last.err = "ok") =>
        \A k \in 0..(Ceil(Len(Cur.data)) - 1) :
            LET id == LookupVal(Cur.idx + 1 + k) IN
            /\ id # NullId
            /\ disk[id].kind = "raw"
            /\ disk[id].bytes = Layout(Cur.data, k)

\* C10 (as claimed): after successful builds and writes, entry i+1 starts at
\* index start(i) + 1 + ceil(size(i)/block_size), and first() with repeated
\* next() visits exactly the entries appended, in order, with their names and
\* sizes, and then ends.
ContiguousLayout ==
    /\ \A i \in 1..(Len(entries) - 1) :
         entries[i + 1].idx = entries[i].idx + 1 + Ceil(Len(entries[i].data))
    /\ Visited = Expected

\* C11 (as claimed): a successful build acquires one block of the tree for
\* the metadata, writes the metadata with size 0 to it, adds one to the header
\* file count and flushes the header; and after successful builds and writes
\* the header file count is the number of entries first()/next() enumerate.
FileCount ==
    /\ [][(last'.op = "build" /\ last'.err = "ok" /\ steps' = steps + 1) =>
            /\ tree'.nblocks = tree.nblocks + 1
            /\ LookupVal(tree.nblocks - 1)' = last'.val
            /\ disk'[last'.val] = [kind |-> "meta", name |-> ent'.name, size |-> 0]
            /\ hdr'.files = hdr.files + 1
            /\ disk'[hdr.id] = [kind |-> "header", files |-> hdr'.files,
                                tree |-> TreeSer(tree')]]_vars
    /\ [](/\ \A i \in 1..Len(Visited) : Visited[i].idx >= 0
          /\ Len(Visited) = hdr.files)

\* C16: write_all with an empty buffer returns Ok and is a no-op: no write
\* call, no block acquired, no backend operation; the entry size, the tree
\* and every lookup stay as they were.
WriteAllEmpty ==
    /\ [](ent.live =>
            LET r == write_all(Machine(0), <<>>) IN
            /\ r.err = "ok"
            /\ r.ops = 0
            /\ r.log = <<>>
            /\ r.acc = 0
            /\ r.ent = ent
            /\ r.tree = tree
            /\ r.disk = disk
            /\ r.nextId = nextId)
    /\ [][(last'.op = "write_all" /\ last'.err = "ok" /\ last'.val = 0
           /\ steps' = steps + 1) =>
            /\ UNCHANGED <<disk, nextId, tree, hdr, ent, entries>>
            /\ \A i \in Indices : LookupVal(i)' = LookupVal(i)]_vars

WriteAllEmptyWitness ==
    /\ ent.live
    /\ last.op = "write_all"
    /\ last.err = "ok"
    /\ last.val = 0
    /\ ~Cur.empty
    /\ ent.size = BlockSize
    /\ tree.nblocks = Cur.idx + 2
    /\ LookupVal(Cur.idx + 2) = NullId

\* ------------------------------------------------- claims on failures

\* the tree as loaded from a header block: the node cache starts empty
TreeLoad(t) ==
    [cache |-> <<>>, direct |-> t.direct, indirect |-> t.indirect,
     d_indirect |-> t.d_indirect, t_indirect |-> t.t_indirect,
     nblocks |-> t.nblocks]

\* the archive as a process that opens it after a crash sees it: header and
\* tree are those of the header block
OnDisk ==
    [Machine(0) EXCEPT !.tree = TreeLoad(disk[hdr.id].tree),
                       !.hdr.files = disk[hdr.id].files,
                       !.ent = NoEntry]

DiskVisited == WalkFrom(first(OnDisk), <<>>)

\* the backend has carried out a prefix of the writes of the calls made: no
\* call failed, or the last call is the first that did
CrashPoint ==
    \/ budget = MaxFailures
    \/ budget = MaxFailures - 1 /\ last.err = "backend"

\* the number (from 1) of the entry whose metadata block is at tree index idx
EntryNo(idx) == CHOOSE j \in 1..Len(entries) : entries[j].idx = idx

\* C12 (as claimed): after every prefix of the backend writes of create,
\* build and write calls, every entry reachable through the header and tree
\* on disk has a size S on disk whose ceil(S/block_size) content blocks
\* resolve through the tree on disk and hold the bytes written, and the file
\* count on disk is the number of these entries. (Stated for calls with
\* non-empty buffers.)
CrashConsistency ==
    (CrashPoint /\ NoEmptyWrite) =>
        /\ \A i \in 1..Len(DiskVisited) :
             LET e == DiskVisited[i] IN
             e.idx >= 0 =>
               /\ \E j \in 1..Len(entries) : entries[j].idx = e.idx
               /\ \A k \in 0..(Ceil(e.size) - 1) :
                    LET l == lookup(OnDisk, e.idx + 1 + k) IN
                    /\ l.err = "ok"
                    /\ l.val # NullId
                    /\ disk[l.val].kind = "raw"
                    /\ \A q \in 1..BlockSize :
                         k * BlockSize + q <= e.size =>
                           disk[l.val].bytes[q] =
                               ByteAt(EntryNo(e.idx), k * BlockSize + q)
        /\ disk[hdr.id].files =
               Cardinality({i \in 1..Len(DiskVisited) : DiskVisited[i].idx >= 0})

\* C13 (as claimed): when a backend operation fails during write or
\* write_all, the entry stays valid: its size, in memory and in the metadata
\* block, is the sum of the counts of the writes that succeeded, those bytes
\* are readable, and exactly ceil(size/block_size) content blocks follow the
\* metadata block in the tree. (Stated for calls with non-empty buffers.)
PartialFailure ==
    (ent.live /\ Cur.failed /\ ~Cur.empty) =>
        LET e == EntryAt(Machine(0), Cur.idx) IN
        /\ ent.size = Len(Cur.data)
        /\ disk[ent.first].size = Len(Cur.data)
        /\ tree.nblocks = Cur.idx + 1 + Ceil(Len(Cur.data))
        /\ e.err = "ok"
        /\ read_vec(e, e.val).err = "ok"
        /\ read_vec(e, e.val).val.out = Cur.data

\* ------------------------------------------------------------ the reader

\* the first n bytes a caller writes to the e-th entry
Pattern(e, n) == Tuple([p \in 1..n |-> ByteAt(e, p)])

\* an archive of k empty entries and the file entry "foo" of S bytes after
\* them, written by one write_all
Filled(k, S) ==
    Let(build(Appended(k), "foo"),
        LAMBDA b : IF b.err # "ok" THEN b ELSE write_all(b, Pattern(k + 1, S)))

\* reader: the FileEntry being read (e), the bytes its calls have delivered
\* so far (got) and the length of the buffer of the last call (want)
InitRead ==
    \E k \in Preset, S \in 0..MaxData :
        LET w == Filled(k, S)
            o == EntryAt([w EXCEPT !.ent = NoEntry], k)
        IN
        /\ w.err = "ok"
        /\ disk = o.disk
        /\ nextId = o.nextId
        /\ tree = o.tree
        /\ hdr = o.hdr
        /\ ent = NoEntry
        /\ budget = 0
        /\ last = [op |-> "open", err |-> o.err, val |-> 0]
        /\ nacq = 0
        /\ ncalls = 0
        /\ entries = Tuple([i \in 1..(k + 1) |->
                              IF i <= k
                              THEN [name |-> "pre", idx |-> i - 1, data |-> <<>>,
                                    failed |-> FALSE, empty |-> FALSE]
                              ELSE [name |-> "foo", idx |-> k,
                                    data |-> Pattern(k + 1, S),
                                    failed |-> FALSE, empty |-> FALSE]])
        /\ steps = 0
        /\ base = NoEntry
        /\ reader = [live |-> TRUE, e |-> o.val, got |-> <<>>, want |-> 0]
        /\ bc = NoEntry

CommitRead(r, op, n) ==
    /\ disk' = r.disk
    /\ nextId' = r.nextId
    /\ tree' = r.tree
    /\ budget' = budget - Failed(r)
    /\ last' = [op |-> op, err |-> r.err, val |-> Len(r.val.out)]
    /\ reader' = [reader EXCEPT !.e = r.val, !.got = @ \o r.val.out, !.want = n]
    /\ UNCHANGED <<hdr, ent, nacq, ncalls, entries, steps, base, bc>>

\* entry.read(buf) with a buffer of n bytes; last.val is the count returned;
\* the run ends once more than MaxData bytes have been delivered
Read ==
    /\ reader.live
    /\ Len(reader.got) <= MaxData
    /\ \E n \in 0..MaxBuf :
         \E f \in FailAt(read(Machine(0), reader.e, n).ops) :
           CommitRead(read(Machine(f), reader.e, n), "read", n)

\* entry.read_all(buf) with a buffer of n bytes; last.val is the number of
\* bytes put into the buffer
ReadAll ==
    /\ reader.live
    /\ Len(reader.got) <= MaxData
    /\ \E n \in 0..MaxBuf :
         \E f \in FailAt(read_all(Machine(0), reader.e, n, <<>>).ops) :
           CommitRead(read_all(Machine(f), reader.e, n, <<>>), "read_all", n)

NextRead == Read \/ ReadAll

SpecRead == InitRead /\ [][NextRead]_vars

\* the content of the entry being read
Content == Cur.data

\* C14: on an intact file entry of size S every read(buf) returns
\* n <= len(buf), and the bytes the read calls deliver, put together, are a
\* prefix of the S content bytes: none skipped, none repeated, no padding
\* byte, never more than S.
SequentialRead ==
    reader.live =>
        /\ Len(reader.got) <= Len(Content)
        /\ reader.got = SubSeq(Content, 1, Len(reader.got))
        /\ Len(reader.e.out) <= reader.want
        /\ \A n \in 0..MaxBuf :
             LET r == read(Machine(0), reader.e, n) IN
             /\ r.err = "ok"
             /\ Len(r.val.out) <= n
             /\ Len(reader.got) + Len(r.val.out) <= Len(Content)
             /\ r.val.out = SubSeq(Content, Len(reader.got) + 1,
                                   Len(reader.got) + Len(r.val.out))

SequentialReadWitness ==
    /\ reader.live
    /\ Len(Content) = BlockSize + 1
    /\ reader.got = Content
    /\ last.op = "read"
    /\ reader.want = MaxBuf
    /\ last.val = 1

\* C15: read_all(buf) returns Ok with buf filled with the next len(buf)
\* content bytes when that many are unread, fails with UnexpectedEof exactly
\* when fewer are unread, and on an empty buffer returns Ok without reading.
ReadAllEof ==
    reader.live =>
        \A n \in 0..MaxBuf :
            LET r == read_all(Machine(0), reader.e, n, <<>>)
                unread == Len(Content) - Len(reader.got)
            IN /\ n <= unread =>
                    /\ r.err = "ok"
                    /\ r.val.out = SubSeq(Content, Len(reader.got) + 1,
                                          Len(reader.got) + n)
               /\ n > unread => r.err = "eof"
               /\ n = 0 => /\ r.ops = 0
                           /\ r.val = [reader.e EXCEPT !.out = <<>>]

ReadAllEofWitness ==
    /\ reader.live
    /\ Len(Content) = BlockSize + 1
    /\ last.op = "read_all"
    /\ last.err = "eof"
    /\ reader.want = 2
    /\ last.val = 1
    /\ reader.got = Content

\* ------------------------------------------------ the buffered container

\* block size of the container of the tests of the buffered container
BufBlockSize == 12

\* sizes in bytes of the values (u16, u32) given to serialize / deserialize
Widths == {2, 4}

\* the fixed-endian encoding of value v in w bytes
EncodeBE(v, w) == Tuple([k \in 1..w |-> (v \div Pow(256, w - k)) % 256])

RECURSIVE DecodeBE(_)
DecodeBE(b) ==
    IF b = <<>> THEN 0 ELSE 256 * DecodeBE(SubSeq(b, 1, Len(b) - 1)) + b[Len(b)]

\* bc: the BufContainer with one block acquired:
\*   block        the block of the backend
\*   buf, pos     the scratch buffer and the cursor of the reader or writer on it
\*   mode         which cursor is out: "writer", "reader" or "none"
\*   ret          the last call: its name, result (err, val) and value size w
\*   hist, count  the bytes and the number of values serialized since
\*                create_writer (kept for the claims)
\*   drawn        the sizes and values deserialized since read_buf (kept for
\*                the claims)
\*   refused      whether a serialize was refused since create_writer
NewBuf ==
    [block |-> Zeros(BufBlockSize), buf |-> Zeros(BufBlockSize), pos |-> 0,
     mode |-> "none", ret |-> [op |-> "new", err |-> "ok", val |-> 0, w |-> 0],
     hist |-> <<>>, count |-> 0, drawn |-> <<>>, refused |-> FALSE]

\* a create_writer that leaves the scratch buffer as it is
create_writer_dirty(b) ==
    [b EXCEPT !.pos = 0, !.mode = "writer",
              !.ret = [op |-> "create_writer", err |-> "ok", val |-> 0, w |-> 0],
              !.hist = <<>>, !.count = 0, !.refused = FALSE, !.drawn = <<>>]

\* BufContainer::create_writer
create_writer(b) ==
    [b EXCEPT !.buf = Zeros(BufBlockSize), !.pos = 0, !.mode = "writer",
              !.ret = [op |-> "create_writer", err |-> "ok", val |-> 0, w |-> 0],
              !.hist = <<>>, !.count = 0, !.refused = FALSE, !.drawn = <<>>]

\* writer.serialize(&v) for a value of w bytes
serialize(b, v, w) ==
    IF b.pos + w > BufBlockSize
    THEN [b EXCEPT !.ret = [op |-> "serialize", err |-> "nospace", val |-> 0, w |-> w],
                   !.refused = TRUE]
    ELSE [b EXCEPT !.buf = Tuple([p \in 1..BufBlockSize |->
                                    IF p > b.pos /\ p <= b.pos + w
                                    THEN EncodeBE(v, w)[p - b.pos] ELSE b.buf[p]]),
                   !.pos = @ + w,
                   !.ret = [op |-> "serialize", err |-> "ok", val |-> w, w |-> w],
                   !.hist = @ \o EncodeBE(v, w),
                   !.count = @ + 1]

\* BufContainer::write_buf(id): the scratch buffer goes to the block
write_buf(b) ==
    [b EXCEPT !.block = b.buf, !.mode = "none",
              !.ret = [op |-> "write_buf", err |-> "ok", val |-> BufBlockSize, w |-> 0]]

\* BufContainer::read_buf(id): the block goes to the scratch buffer
read_buf(b) ==
    [b EXCEPT !.buf = b.block, !.pos = 0, !.mode = "reader",
              !.ret = [op |-> "read_buf", err |-> "ok", val |-> BufBlockSize, w |-> 0],
              !.drawn = <<>>, !.hist = <<>>, !.count = 0, !.refused = FALSE]

\* a deserialize that leaves the cursor where it is
deserialize_stuck(b, w) ==
    IF b.pos + w > BufBlockSize
    THEN [b EXCEPT !.ret = [op |-> "deserialize", err |-> "eof", val |-> 0, w |-> w]]
    ELSE [b EXCEPT !.ret = [op |-> "deserialize", err |-> "ok",
                            val |-> DecodeBE(SubSeq(b.buf, b.pos + 1, b.pos + w)),
                            w |-> w],
                   !.drawn = Append(@, [w |-> w,
                            val |-> DecodeBE(SubSeq(b.buf, b.pos + 1, b.pos + w))])]

\* reader.deserialize::<T>() for a value of w bytes
deserialize(b, w) ==
    IF b.pos + w > BufBlockSize
    THEN [b EXCEPT !.ret = [op |-> "deserialize", err |-> "eof", val |-> 0, w |-> w]]
    ELSE [b EXCEPT !.pos = @ + w,
                   !.ret = [op |-> "deserialize", err |-> "ok",
                            val |-> DecodeBE(SubSeq(b.buf, b.pos + 1, b.pos + w)),
                            w |-> w],
                   !.drawn = Append(@, [w |-> w,
                            val |-> DecodeBE(SubSeq(b.buf, b.pos + 1, b.pos + w))])]

InitBuf ==
    /\ disk = <<>>
    /\ nextId = 1
    /\ tree = TreeNew
    /\ hdr = [id |-> NullId, files |-> 0]
    /\ ent = NoEntry
    /\ budget = 0
    /\ last = [op |-> "new", err |-> "ok", val |-> 0]
    /\ nacq = 0
    /\ ncalls = 0
    /\ entries = <<>>
    /\ steps = 0
    /\ base = NoEntry
    /\ reader = NoEntry
    /\ bc = NewBuf

BufStep(b) ==
    /\ bc' = b
    /\ UNCHANGED <<disk, nextId, tree, hdr, ent, budget, last, nacq, ncalls,
                   entries, steps, base, reader>>

CreateWriter == BufStep(create_writer(bc))

\* the values serialized are 1, 2, 3, ... as in the tests
Serialize ==
    /\ bc.mode = "writer"
    /\ \E w \in Widths : BufStep(serialize(bc, bc.count + 1, w))

WriteBuf ==
    /\ bc.mode = "writer"
    /\ BufStep(write_buf(bc))

ReadBuf == BufStep(read_buf(bc))

Deserialize ==
    /\ bc.mode = "reader"
    /\ \E w \in Widths : BufStep(deserialize(bc, w))

NextBuf == CreateWriter \/ Serialize \/ WriteBuf \/ ReadBuf \/ Deserialize

SpecBuf == InitBuf /\ [][NextBuf]_vars

\* the sum of the sizes of the first n values deserialized
RECURSIVE DrawnBytes(_)
DrawnBytes(n) == IF n = 0 THEN 0 ELSE DrawnBytes(n - 1) + bc.drawn[n].w

\* C17: a reader on a block of B bytes decodes from offset 0 in order, each
\* deserialize of a w-byte value moving the cursor by w, and a deserialize
\* that needs more bytes than are left before B fails with Eof (for B = 12,
\* three u32 values and then Eof).
BufReader ==
    bc.mode = "reader" =>
        /\ bc.buf = bc.block
        /\ bc.pos = DrawnBytes(Len(bc.drawn))
        /\ bc.pos <= BufBlockSize
        /\ \A i \in 1..Len(bc.drawn) :
             bc.drawn[i].val =
                 DecodeBE(SubSeq(bc.block, DrawnBytes(i - 1) + 1, DrawnBytes(i)))
        /\ (bc.ret.op = "deserialize" /\ bc.ret.err = "eof") =>
             bc.pos + bc.ret.w > BufBlockSize
        /\ (bc.ret.op = "deserialize" /\ bc.ret.err = "ok") =>
             bc.drawn[Len(bc.drawn)] = [w |-> bc.ret.w, val |-> bc.ret.val]
        /\ \A w \in Widths :
             deserialize(bc, w).ret.err =
                 IF bc.pos + w > BufBlockSize THEN "eof" ELSE "ok"

BufReaderWitness ==
    /\ bc.mode = "reader"
    /\ bc.block = <<0, 0, 0, 1, 0, 0, 0, 2, 0, 0, 0, 3>>
    /\ bc.drawn = <<[w |-> 4, val |-> 1], [w |-> 4, val |-> 2], [w |-> 4, val |-> 3]>>
    /\ bc.ret = [op |-> "deserialize", err |-> "eof", val |-> 0, w |-> 4]

\* C18: a writer starts on an all-zero buffer of B bytes; a serialize of a
\* w-byte value returns w and appends at the cursor; one that would pass B
\* fails with NoSpace and leaves the bytes serialized intact; a flush stores
\* those bytes and zero padding, and reading the block returns them.
BufWriter ==
    /\ bc.ret.op = "create_writer" => bc.buf = Zeros(BufBlockSize) /\ bc.pos = 0
    /\ bc.mode = "writer" =>
         /\ bc.pos = Len(bc.hist)
         /\ bc.buf = bc.hist \o Zeros(BufBlockSize - bc.pos)
         /\ \A w \in Widths :
              LET r == serialize(bc, 1, w) IN
              IF bc.pos + w > BufBlockSize
              THEN r.ret.err = "nospace" /\ r.buf = bc.buf /\ r.pos = bc.pos
              ELSE /\ r.ret.err = "ok" /\ r.ret.val = w /\ r.pos = bc.pos + w
                   /\ r.buf = bc.hist \o EncodeBE(1, w)
                                     \o Zeros(BufBlockSize - bc.pos - w)
    /\ bc.ret.op = "write_buf" =>
         /\ bc.block = bc.hist \o Zeros(BufBlockSize - Len(bc.hist))
         /\ read_buf(bc).buf = bc.block

BufWriterWitness ==
    /\ bc.ret.op = "write_buf"
    /\ bc.refused
    /\ bc.hist = <<0, 0, 0, 1, 0, 0, 0, 2, 0, 0, 0, 3>>
    /\ bc.block = bc.hist

\* ------------------------------------------- claims on the write call

\* the block the next write call writes the content to, and the backend
\* operations of its tree.aquire (none when the tail block is partly filled)
NextAquire ==
    IF ent.size % BlockSize = 0
    THEN aquire(Machine(0))
    ELSE Ok(Machine(0), ent.last)

\* the backend operations of a write call that no failure stops: those of
\* tree.aquire, then the content block, the metadata block and the header;
\* a tree.aquire refused for lack of space ends the call
WriteLog ==
    LET a == NextAquire IN
    IF a.err # "ok" THEN a.log
    ELSE a.log \o <<[op |-> "write", id |-> a.val],
                    [op |-> "write", id |-> ent.first],
                    [op |-> "write", id |-> hdr.id]>>

\* C19: the backend operations of one write call are those of tree.aquire
\* (only when the entry size is a multiple of the block size), then the
\* write of the content block, then that of the metadata block, then that of
\* the header; tree.aquire writes none of these three blocks; a call stopped
\* by a failing operation has issued the operations before it, in this
\* order; the in-memory size is increased exactly when the content block
\* has been written.
WriteOrdering ==
    ent.live =>
        \A buf \in Bufs :
            LET a == NextAquire
                w == write(Machine(0), buf)
                nbytes == Min(Len(buf), BlockSize - (ent.size % BlockSize))
            IN
            /\ ent.size % BlockSize # 0 => a.log = <<>>
            /\ ent.size % BlockSize = 0 /\ a.err = "ok" =>
                  \A i \in 1..Len(a.log) :
                      /\ a.log[i].id \notin {ent.first, hdr.id}
                      /\ a.log[i].id = a.val => a.log[i].op = "aquire"
            /\ w.log = WriteLog
            /\ w.ops = Len(w.log)
            /\ w.err = a.err
            /\ \A f \in 1..w.ops :
                  LET r == write(Machine(f), buf) IN
                  /\ r.err = "backend"
                  /\ r.log = SubSeq(WriteLog, 1, f - 1)
                  /\ r.ent.size = IF f - 1 > Len(a.log) THEN ent.size + nbytes
                                  ELSE ent.size
            /\ w.err = "ok" => w.ent.size = ent.size + nbytes

\* a write has filled the tail block, and the next one acquires a block
\* whose index node is written too
WriteOrderingWitness ==
    /\ ent.live
    /\ last.op = "write"
    /\ last.err = "ok"
    /\ last.val > 0
    /\ ent.size = BlockSize
    /\ NextAquire.err = "ok"
    /\ Len(NextAquire.log) > 1
    /\ Len(WriteLog) = Len(NextAquire.log) + 3

\* the writes of log to the blocks of ids, in the order of the log
WritesTo(log, ids) ==
    LET Hit(e) == e.op = "write" /\ e.id \in ids IN SelectSeq(log, Hit)

\* C20: every successful write call, a single-byte write into a partly
\* filled tail block included, issues exactly one write of the content
\* block, one of the metadata block and one of the header, and after it the
\* size in the metadata block and the tree in the header block on disk are
\* those in memory.
WriteAmplification ==
    /\ ent.live =>
          \A buf \in Bufs :
              LET w == write(Machine(0), buf) IN
              w.err = "ok" =>
                  /\ WritesTo(w.log, {w.ent.last, w.ent.first, w.hdr.id}) =
                        <<[op |-> "write", id |-> w.ent.last],
                          [op |-> "write", id |-> w.ent.first],
                          [op |-> "write", id |-> w.hdr.id]>>
                  /\ w.disk[w.ent.first] =
                        [kind |-> "meta", name |-> ent.name, size |-> w.ent.size]
                  /\ w.disk[w.hdr.id] =
                        [kind |-> "header", files |-> hdr.files,
                         tree |-> TreeSer(w.tree)]
    /\ ent.live /\ last.op = "write" /\ last.err = "ok" =>
          /\ disk[ent.first].size = ent.size
          /\ disk[hdr.id].tree = TreeSer(tree)

\* a write of one byte has filled a tail block that held one byte, and a
\* further write of one byte is possible
WriteAmplificationWitness ==
    /\ ent.live
    /\ last.op = "write"
    /\ last.err = "ok"
    /\ last.val = 1
    /\ ent.size = BlockSize + 1
    /\ Len(ent.cache) = BlockSize
    /\ \E buf \in Bufs : Len(buf) = 1 /\ write(Machine(0), buf).err = "ok"

\* --------------------------------------------- claims on the empty write

\* C21 (as claimed): a write call with an empty buffer returns 0 and, for
\* every entry size, acquires no block and leaves tree.nblocks and the entry
\* size unchanged.
EmptyWriteNoop ==
    ent.live =>
        LET w == write(Machine(0), <<>>) IN
        w.err = "ok" =>
            /\ w.val = 0
            /\ w.nextId = nextId
            /\ w.tree.nblocks = tree.nblocks
            /\ w.ent.size = ent.size

\* ------------------------------------------ further claims on the tree

\* C22 (as claimed): every acquire call that returns Ok increments nblocks
\* by exactly one, however many interior index nodes it allocates; a call
\* that fails after allocating interior nodes, and every lookup, leave
\* nblocks as it was.
AquireIncrements ==
    [][/\ (ncalls' = ncalls + 1 /\ last'.err = "ok") =>
              tree'.nblocks = tree.nblocks + 1
       /\ (ncalls' = ncalls + 1 /\ last'.err # "ok") =>
              tree'.nblocks = tree.nblocks
       /\ ncalls' = ncalls => tree'.nblocks = tree.nblocks]_vars

\* the ids of index node id as the tree sees them: those of the cache slot
\* that holds the node, else those of its block
NodeIds(id) ==
    IF \E k \in 1..Len(tree.cache) : tree.cache[k].id = id
    THEN tree.cache[CHOOSE k \in 1..Len(tree.cache) : tree.cache[k].id = id].ids
    ELSE NodeUnpack(disk[id])

\* node id, depth levels above the leaves, has an allocated leaf below it
RECURSIVE HasLeaf(_, _)
HasLeaf(id, depth) ==
    \E j \in 1..Ipn :
        /\ NodeIds(id)[j] # NullId
        /\ depth > 1 => HasLeaf(NodeIds(id)[j], depth - 1)

\* every non-NULL entry of interior node id, depth levels above the leaves,
\* has an allocated leaf below it
RECURSIVE InteriorFilled(_, _)
InteriorFilled(id, depth) ==
    depth > 1 =>
        \A j \in 1..Ipn :
            NodeIds(id)[j] # NullId =>
                /\ HasLeaf(NodeIds(id)[j], depth - 1)
                /\ InteriorFilled(NodeIds(id)[j], depth - 1)

\* C23 (as claimed): in every reachable state of the tree, those after a
\* failed acquire included, indirect is non-NULL only if nblocks > 12,
\* d_indirect only if nblocks > 12 + ipn, t_indirect only if
\* nblocks > 12 + ipn + ipn^2; a non-NULL entry of an interior index node has
\* an allocated leaf below it; an interior pointer, once non-NULL, never
\* changes.
InteriorPointers ==
    /\ [](/\ tree.indirect # NullId => tree.nblocks > NUM_DIRECT
          /\ tree.d_indirect # NullId => tree.nblocks > NUM_DIRECT + Ipn
          /\ tree.t_indirect # NullId => tree.nblocks > NUM_DIRECT + Ipn + Ipn * Ipn
          /\ tree.d_indirect # NullId => InteriorFilled(tree.d_indirect, 2)
          /\ tree.t_indirect # NullId => InteriorFilled(tree.t_indirect, 3))
    /\ [][/\ tree.indirect # NullId => tree'.indirect = tree.indirect
          /\ tree.d_indirect # NullId => tree'.d_indirect = tree.d_indirect
          /\ tree.t_indirect # NullId => tree'.t_indirect = tree.t_indirect]_vars

\* the index class of tree index idx: the offset in the class and the number
\* of index-node levels above the leaf (lookup_cache)
Class(idx) ==
    IF idx < NUM_DIRECT THEN [off |-> idx, depth |-> 0]
    ELSE IF idx < NUM_DIRECT + Ipn THEN [off |-> idx - NUM_DIRECT, depth |-> 1]
    ELSE IF idx < NUM_DIRECT + Ipn + Ipn * Ipn
    THEN [off |-> idx - NUM_DIRECT - Ipn, depth |-> 2]
    ELSE [off |-> idx - NUM_DIRECT - Ipn - Ipn * Ipn, depth |-> 3]

\* the slot of tree index idx in its index node of level p (1 is the root)
Digit(idx, p) == (Class(idx).off \div Pow(Ipn, Class(idx).depth - p)) % Ipn

\* the root pointer of tree t for the class of idx
Root(t, idx) ==
    IF Class(idx).depth = 1 THEN t.indirect
    ELSE IF Class(idx).depth = 2 THEN t.d_indirect
    ELSE t.t_indirect

\* the ids from the root index node to the leaf of idx as the call that
\* returned machine a resolved them: the root pointer, then the slots of the
\* node cache
PathAfter(a, idx) ==
    IF Class(idx).depth = 0 THEN <<a.tree.direct[idx + 1]>>
    ELSE Tuple([p \in 1..(Class(idx).depth + 1) |->
                   IF p = 1 THEN Root(a.tree, idx)
                   ELSE a.tree.cache[p - 1].ids[Digit(idx, p - 1) + 1]])

\* the id at position p of the path of idx in the current state, NullId
\* where the path ends
RECURSIVE BeforeAt(_, _)
BeforeAt(idx, p) ==
    IF Class(idx).depth = 0 THEN tree.direct[idx + 1]
    ELSE IF p = 1 THEN Root(tree, idx)
    ELSE Let(BeforeAt(idx, p - 1),
         LAMBDA up : IF up = NullId THEN NullId
                     ELSE NodeIds(up)[Digit(idx, p - 1) + 1])

\* the ids of the blocks a call acquired, in the order of the log
AcqIds(log) ==
    LET Acq(e) == e.op = "aquire"
        s == SelectSeq(log, Acq)
    IN Tuple([i \in 1..Len(s) |-> s[i].id])

\* C24 (as claimed): within one acquire call the blocks are allocated from
\* the root index node of the class down to the leaf; an index node is
\* allocated by the call exactly when its place on the path is still NULL,
\* which happens only in the acquire of the first leaf below it, and a node
\* already there is kept.
TopDownAllocation ==
    LET idx == tree.nblocks
        a == aquire(Machine(0))
        n == Class(idx).depth + 1
        got == AcqIds(a.log)
    IN
    (idx < Capacity /\ a.err = "ok") =>
        /\ Len(got) <= n
        /\ got = SubSeq(PathAfter(a, idx), n - Len(got) + 1, n)
        /\ \A p \in 1..n :
              /\ p > n - Len(got) <=> BeforeAt(idx, p) = NullId
              /\ BeforeAt(idx, p) # NullId => PathAfter(a, idx)[p] = BeforeAt(idx, p)
              /\ (p < n /\ BeforeAt(idx, p) = NullId) =>
                    Class(idx).off % Pow(Ipn, n - p) = 0

\* C25 (as claimed): from a fresh tree no sequence of acquire and lookup
\* calls, backend failures and repeated acquire calls included, brings
\* acquire onto a leaf slot that is already non-NULL: the leaf slot of index
\* nblocks is NULL in every reachable state; were it not, acquire would
\* return the id in the slot and leave nblocks unchanged.
AlreadyAquiredUnreachable ==
    tree.nblocks < Capacity =>
        LET leaf == BeforeAt(tree.nblocks, Class(tree.nblocks).depth + 1)
            a == aquire(Machine(0))
        IN
        /\ leaf = NullId
        /\ (leaf # NullId /\ a.err = "ok") =>
              a.val = leaf /\ a.tree.nblocks = tree.nblocks

\* the ids of the index nodes of the tree: the three root pointers and the
\* entries of the interior nodes below d_indirect and t_indirect
InteriorIds ==
    LET Below(id) == IF id = NullId THEN {}
                     ELSE {NodeIds(id)[j] : j \in 1..Ipn} \ {NullId}
        l1 == Below(tree.t_indirect)
    IN ({tree.indirect, tree.d_indirect, tree.t_indirect} \ {NullId})
       \cup Below(tree.d_indirect)
       \cup l1
       \cup UNION {Below(id) : id \in l1}

\* what lookup returns for the indices below nblocks
Lookups == Tuple([i \in 1..tree.nblocks |-> LookupVal(i - 1)])

\* machine m as the next call of the tree finds it
NextCall(m) == [m EXCEPT !.ops = 0, !.err = "ok", !.val = 0, !.log = <<>>]

\* C26 (as claimed): the ids returned by successful acquire calls are
\* pairwise distinct and distinct from every index-node id and from the
\* header id: lookup(i) # lookup(j) for all i # j below nblocks, no lookup
\* returns the id of an index node or of the header, and an acquire that
\* returns Ok returns an id that no lookup returns yet and that the acquire
\* after it does not return again.
DistinctBlocks ==
    Let(Lookups,
    LAMBDA L : Let(InteriorIds \cup {hdr.id},
    LAMBDA nodes : Let(aquire(Machine(0)),
    LAMBDA a1 :
        /\ \A i, j \in 1..Len(L) : (i # j /\ L[i] # NullId) => L[i] # L[j]
        /\ \A i \in 1..Len(L) : L[i] \notin nodes
        /\ a1.err = "ok" =>
              /\ a1.val # NullId
              /\ a1.val \notin nodes
              /\ \A i \in 1..Len(L) : L[i] # a1.val
              /\ LET a2 == aquire(NextCall(a1)) IN
                 a2.err = "ok" => a2.val # a1.val)))

\* C27 (as claimed): in every reachable state a lookup(idx) call, for any
\* idx, acquires no backend block, writes no backend block and leaves
\* nblocks, direct, indirect, d_indirect and t_indirect unchanged; only the
\* node cache may change.
LookupReadOnly ==
    \A idx \in Indices :
        \A f \in 0..lookup(Machine(0), idx).ops :
            LET r == lookup(Machine(f), idx) IN
            /\ \A i \in 1..Len(r.log) : r.log[i].op = "read"
            /\ r.nextId = nextId
            /\ r.disk = disk
            /\ TreeSer(r.tree) = TreeSer(tree)

\* ------------------------------------- the reader on a reopened archive

\* Filled(k, S) on a backend whose f-th operation, counted from the build
\* of "foo", fails (none fails when f = 0)
FilledFail(k, S, f) ==
    Let(build([Appended(k) EXCEPT !.ops = 0, !.fail = f], "foo"),
        LAMBDA b : IF b.err # "ok" THEN b ELSE write_all(b, Pattern(k + 1, S)))

\* the archive that machine w left on the backend, opened again: header and
\* tree are those of the header block, the node cache is empty
Reopened(w) ==
    [disk |-> w.disk, nextId |-> w.nextId,
     tree |-> TreeLoad(w.disk[w.hdr.id].tree),
     hdr |-> [id |-> w.hdr.id, files |-> w.disk[w.hdr.id].files],
     ent |-> NoEntry,
     ops |-> 0, fail |-> 0, err |-> "ok", val |-> 0, acc |-> 0, log |-> <<>>]

\* the entry "foo" of an archive whose writer stopped at a backend failure
\* (or finished), found again through first() and next() after a reopen
InitReopen ==
    \E k \in Preset, S \in 0..MaxData :
      \E f \in 0..FilledFail(k, S, 0).ops :
        LET w == FilledFail(k, S, f)
            o == EntryAt(Reopened(w), k)
        IN
        /\ o.err = "ok"
        /\ o.val.idx = k
        /\ disk = o.disk
        /\ nextId = o.nextId
        /\ tree = o.tree
        /\ hdr = o.hdr
        /\ ent = NoEntry
        /\ budget = 0
        /\ last = [op |-> "open", err |-> o.err, val |-> 0]
        /\ nacq = 0
        /\ ncalls = 0
        /\ entries = Tuple([i \in 1..(k + 1) |->
                              IF i <= k
                              THEN [name |-> "pre", idx |-> i - 1, data |-> <<>>,
                                    failed |-> FALSE, empty |-> FALSE]
                              ELSE [name |-> "foo", idx |-> k,
                                    data |-> Pattern(k + 1, S),
                                    failed |-> w.err # "ok", empty |-> FALSE]])
        /\ steps = 0
        /\ base = NoEntry
        /\ reader = [live |-> TRUE, e |-> o.val, got |-> <<>>, want |-> 0]
        /\ bc = NoEntry

SpecReopen == InitReopen /\ [][NextRead]_vars

\* C28 (as claimed): once read with a non-empty buffer returns 0 on an
\* entry, because all content blocks are consumed or because a content
\* block is absent from the tree, a later read returns 0 and delivers no
\* bytes as well.
StickyEnd ==
    reader.live =>
        \A n \in 1..MaxBuf :
            LET r == read(Machine(0), reader.e, n) IN
            (r.err = "ok" /\ r.val.out = <<>>) =>
                \A n2 \in 1..MaxBuf :
                    LET r2 == read(NextCall(r), r.val, n2) IN
                    r2.err = "ok" /\ r2.val.out = <<>>

\* ----------------------------------------------- claims on the tail cache

\* C29 (as claimed): whenever write is entered with size % block_size # 0,
\* also after an earlier write call on the entry failed, the tail cache has
\* the length block_size (the assertion of write holds), equals the block
\* last_id on disk, and last_id is the id of the last content block of the
\* entry.
TailCache ==
    (ent.live /\ ent.size % BlockSize # 0) =>
        /\ Len(ent.cache) = BlockSize
        /\ \A buf \in Bufs : write(Machine(0), buf).err # "panic"
        /\ disk[ent.last] = [kind |-> "raw", bytes |-> ent.cache]
        /\ ent.last = LookupVal(Cur.idx + Ceil(ent.size))

\* ----------------------------------------------------- claims on progress

\* the number of write calls of a write_all call that returned machine a:
\* each call that returned Ok wrote the header once, and the call that
\* returned an error ended the loop
WriteCalls(a) ==
    Len(WritesTo(a.log, {a.hdr.id})) + (IF a.err # "ok" THEN 1 ELSE 0)

\* the number of read calls of read_all on entry e with a buffer of n bytes
RECURSIVE ReadCalls(_, _, _)
ReadCalls(m, e, n) ==
    IF n = 0 THEN 0
    ELSE Let(read(m, e, n),
         LAMBDA r : IF r.err # "ok" \/ r.val.out = <<>> THEN 1
                    ELSE 1 + ReadCalls(r, r.val, n - Len(r.val.out)))

\* C30: a successful write on a non-empty buffer returns at least 1;
\* write_all(data) on a backend that does not fail makes at most len(data)
\* write calls and, when it returns Ok, has increased the entry size by
\* exactly len(data); read_all on a buffer of n bytes, for every n up to one
\* more than the entry holds, makes at most n read calls, each of which
\* delivers between 1 and the bytes still wanted, or 0.
Progress ==
    ent.live =>
        /\ \A buf \in Bufs :
              LET w == write(Machine(0), buf) IN
              (w.err = "ok" /\ buf # <<>>) => (w.val >= 1 /\ w.val <= Len(buf))
        /\ \A buf \in Bufs :
              LET a == write_all(Machine(0), buf) IN
              /\ WriteCalls(a) <= Len(buf)
              /\ a.err = "ok" => a.ent.size = ent.size + Len(buf)
              /\ a.err = "ok" => a.acc = Len(buf)
        /\ LET o == EntryAt(Machine(0), Cur.idx) IN
           (o.err = "ok" /\ o.val.idx = Cur.idx) =>
               \A n \in 0..(o.val.size + 1) :
                   /\ ReadCalls(o, o.val, n) <= n
                   /\ Len(read(o, o.val, n).val.out) <= n
                   /\ Let(read_all(o, o.val, n, <<>>),
                          LAMBDA r : /\ r.err \in {"ok", "eof"}
                                     /\ Len(r.val.out) = Min(n, o.val.size))

\* a write_all of MaxBuf bytes that took two write calls has returned, and
\* read_all on the entry needs more than one read call
ProgressWitness ==
    /\ ent.live
    /\ last.op = "write_all"
    /\ last.err = "ok"
    /\ last.val = MaxBuf
    /\ ent.size = MaxBuf
    /\ ~Cur.empty
    /\ LET o == EntryAt(Machine(0), Cur.idx) IN
       /\ o.err = "ok"
       /\ ReadCalls(o, o.val, MaxBuf) = 2
       /\ ReadCalls(o, o.val, MaxBuf + 1) = 3

\* ------------------------------------------------ claims on a failed build

\* C31 (as claimed): a build that returns an error leaves the header file
\* count and tree.nblocks in memory as they were, so that after a later
\* successful build the entries built are the ones first() and next()
\* enumerate, each at the index of its metadata block, and the file count is
\* their number. (The consequence is stated for archives whose write calls
\* all returned Ok on non-empty buffers.)
FailedBuild ==
    /\ [][(last'.op = "build" /\ last'.err # "ok" /\ steps' = steps + 1) =>
            /\ hdr'.files = hdr.files
            /\ tree'.nblocks = tree.nblocks]_vars
    /\ []((/\ last.op = "build"
           /\ last.err = "ok"
           /\ \A i \in 1..Len(entries) : ~entries[i].empty /\ ~entries[i].failed) =>
            /\ Len(Visited) = Len(entries)
            /\ \A i \in 1..Len(Visited) : Visited[i].idx = entries[i].idx
            /\ hdr.files = Len(Visited))

\* ------------------------------------------------- the target of a symlink

\* the chunk sizes of read_target: the source reads 64 bytes at a time from
\* blocks of any size; with blocks of BlockSize bytes the chunk is taken
\* smaller than a block, equal to it, and larger up to two blocks
Chunks == 1..(2 * BlockSize)

\* read_target that takes a read shorter than the chunk for the end
RECURSIVE read_target_short(_, _, _, _)
read_target_short(m, e, chunk, vec) ==
    Let(read(m, e, chunk),
    LAMBDA r :
        IF r.err # "ok" THEN [r EXCEPT !.val.out = vec]
        ELSE Let(SubSeq(CopyFromSlice(vec \o Zeros(chunk), Len(vec),
                                      Len(r.val.out), r.val.out),
                        1, Len(vec) + Len(r.val.out)),
             LAMBDA v : IF Len(r.val.out) < chunk THEN Ok(r, [r.val EXCEPT !.out = v])
                        ELSE read_target_short(r, r.val, chunk, v)))

\* SymlinkEntry::read_target before the decoding: vec is grown by a chunk of
\* zeros, read fills its new tail region, vec is cut back to the bytes
\* read, and the loop ends when read returns 0; val.out is vec
RECURSIVE read_target(_, _, _, _)
read_target(m, e, chunk, vec) ==
    Let(read(m, e, chunk),
    LAMBDA r :
        IF r.err # "ok" THEN [r EXCEPT !.val.out = vec]
        ELSE Let(SubSeq(CopyFromSlice(vec \o Zeros(chunk), Len(vec),
                                      Len(r.val.out), r.val.out),
                        1, Len(vec) + Len(r.val.out)),
             LAMBDA v : IF r.val.out = <<>> THEN Ok(r, [r.val EXCEPT !.out = v])
                        ELSE read_target(r, r.val, chunk, v)))

\* SymlinkEntry::new on the entry just loaded: the target is read
ReadTarget ==
    /\ reader.live
    /\ last.op = "open"
    /\ \E c \in Chunks :
         CommitRead(read_target(Machine(0), reader.e, c, <<>>), "read_target", c)

NextTarget == ReadTarget

SpecTarget == InitRead /\ [][NextTarget]_vars

\* the number of read calls of read_target
RECURSIVE TargetCalls(_, _, _)
TargetCalls(m, e, chunk) ==
    Let(read(m, e, chunk),
    LAMBDA r : IF r.err # "ok" \/ r.val.out = <<>> THEN 1
               ELSE 1 + TargetCalls(r, r.val, chunk))

\* C32: on an entry of any size the chunked reads of read_target end, after
\* at most size + 1 read calls, with exactly the size content bytes of the
\* entry in order, the bytes read_vec returns, for chunks smaller and larger
\* than a block.
TargetBytes ==
    /\ (reader.live /\ last.op = "open") =>
          \A c \in Chunks :
              LET t == read_target(Machine(0), reader.e, c, <<>>) IN
              /\ t.err = "ok"
              /\ t.val.out = Content
              /\ Len(t.val.out) = reader.e.size
              /\ t.val.out = read_vec(Machine(0), reader.e).val.out
              /\ TargetCalls(Machine(0), reader.e, c) <= reader.e.size + 1
    /\ (reader.live /\ last.op = "read_target") =>
          /\ last.err = "ok"
          /\ reader.got = Content
          /\ last.val = reader.e.size
          /\ reader.e.rcache = <<>>

\* the target of MaxData bytes was read in chunks longer than a block
TargetBytesWitness ==
    /\ reader.live
    /\ last.op = "read_target"
    /\ last.err = "ok"
    /\ reader.want = BlockSize + 1
    /\ Len(Content) = MaxData
    /\ reader.got = Content

====
